---- MODULE Spec2Model ----
(***************************************************************************)
(* GameDataBuilder / GameData of src/src/game_data.rs: the deferred        *)
(* operation log, its replay by build, the dispatch of the compiled        *)
(* dispatcher by update, and dispose (Spec: the build without the          *)
(* legion-ecs feature); and, with the feature, the migration methods, the  *)
(* statements of build on the LegionState, update and dispose (BridgeSpec).*)
(***************************************************************************)
EXTENDS Integers, Sequences, FiniteSets, TLC

\* Longest operation log the builder is driven to.
MaxOps == 4
\* Threads of the ArcThreadPool the dispatcher is built with.
NumWorkers == 2
\* Most dispose calls made on one handle.
MaxDisposes == 2
\* Most builder calls made before build with the legion-ecs feature.
MaxBridgeCalls == 3
\* Longest operation log of the runs checked for progress.
MaxLiveOps == 3

(***************************************************************************)
(* Inputs of the builder calls.                                            *)
(***************************************************************************)
NoBundle == [calls |-> <<>>, result |-> "Ok"]

\* A SystemBundle: the calls its build makes on the DispatcherBuilder, and
\* the Result its build returns after them.
BundleCall(kind, name, dependencies) ==
  [kind |-> kind, name |-> name, dependencies |-> dependencies]

GoodBundle ==
  [calls |-> << BundleCall("add", "b", <<>>),
                BundleCall("add_barrier", "", <<>>),
                BundleCall("add_thread_local", "", <<>>) >>,
   result |-> "Ok"]

BadBundle == [calls |-> <<>>, result |-> "Err"]

Bundles == {GoodBundle, BadBundle}

\* (name, dependencies) arguments of with.
WithArgs ==
  { <<"", <<>>>>, <<"a", <<>>>>, <<"b", <<>>>>, <<"c", <<>>>>,
    <<"b", <<"a">>>>, <<"c", <<"a", "b">>>> }

\* (name, dependencies) arguments of with_system_desc.
DescArgs == { <<"", <<"">>>> }

(***************************************************************************)
(* DispatcherOperation values (the boxed operations of the log).           *)
(***************************************************************************)
Operation(op, system, name, dependencies, bundle) ==
  [op |-> op, system |-> system, name |-> name,
   dependencies |-> dependencies, bundle |-> bundle]

AddSystem(system, name, dependencies) ==
  Operation("AddSystem", system, name, dependencies, NoBundle)

AddSystemDesc(system_desc, name, dependencies) ==
  Operation("AddSystemDesc", system_desc, name, dependencies, NoBundle)

AddThreadLocal(system) == Operation("AddThreadLocal", system, "", <<>>, NoBundle)

AddThreadLocalDesc(system_desc) ==
  Operation("AddThreadLocalDesc", system_desc, "", <<>>, NoBundle)

AddBundle(id, bundle) == Operation("AddBundle", id, "", <<>>, bundle)

AddBarrier == Operation("AddBarrier", <<0, 0>>, "", <<>>, NoBundle)

(***************************************************************************)
(* GameDataBuilder methods: each returns the new dispatcher_operations.    *)
(***************************************************************************)
\* with without its dependencies.
with_no_dependencies(ops, system, name, dependencies) ==
  Append(ops, AddSystem(system, name, <<>>))

\* with giving an empty name a default one.
with_default_name(ops, system, name, dependencies) ==
  Append(ops, AddSystem(system, IF name = "" THEN "c" ELSE name, dependencies))

with(ops, system, name, dependencies) ==
  Append(ops, AddSystem(system, name, dependencies))

with_system_desc(ops, system_desc, name, dependencies) ==
  Append(ops, AddSystemDesc(system_desc, name, dependencies))

\* with_barrier returning the builder without recording the barrier.
with_barrier_dropped(ops) == ops

\* with_barrier putting the barrier at the head of the log.
with_barrier_first(ops) == <<Operation("AddBarrier", <<0, 0>>, "", <<>>, NoBundle)>> \o ops

\* with_barrier recording the barrier as an unnamed unit of its own.
with_barrier_as_unit(ops) == Append(ops, AddSystem(<<0, 0>>, "", <<>>))

with_barrier(ops) == Append(ops, AddBarrier)

\* with_thread_local putting the operation at the head of the log.
with_thread_local_first(ops, system) == <<AddThreadLocal(system)>> \o ops

\* with_thread_local registering the unit as a parallel one.
with_thread_local_parallel(ops, system) == Append(ops, AddSystem(system, "", <<>>))

\* with_thread_local pushing its operation twice.
with_thread_local_twice(ops, system) ==
  Append(Append(ops, AddThreadLocal(system)), AddThreadLocal(system))

with_thread_local(ops, system) == Append(ops, AddThreadLocal(system))

with_thread_local_desc(ops, system_desc) ==
  Append(ops, AddThreadLocalDesc(system_desc))

\* with_bundle expanding the bundle at call time: a failing bundle is
\* answered with Err and not recorded.
with_bundle_checked(ops, id, bundle) ==
  IF bundle.result = "Err" THEN ops ELSE Append(ops, AddBundle(id, bundle))

\* with_bundle expanding the bundle ahead of everything registered so far.
with_bundle_first(ops, id, bundle) == <<AddBundle(id, bundle)>> \o ops

with_bundle(ops, id, bundle) == Append(ops, AddBundle(id, bundle))

(***************************************************************************)
(* DispatcherBuilder: the graph builder the operations are replayed on.    *)
(***************************************************************************)
NoError == [kind |-> "None", name |-> ""]
Err(kind, name) == [kind |-> kind, name |-> name]

\* DispatcherBuilder::default(): no node, no thread-local, generation 0.
disp_builder == [nodes |-> <<>>, thread_local |-> <<>>, gen |-> 0]

Node(system, name, deps, gen) ==
  [system |-> system, name |-> name, deps |-> deps, gen |-> gen]

ExecResult(err, db) == [err |-> err, db |-> db]

\* Index of the node registered under a non-empty name (0: none).
Lookup(db, name) ==
  IF name # "" /\ \E k \in 1..Len(db.nodes) : db.nodes[k].name = name
  THEN CHOOSE k \in 1..Len(db.nodes) : db.nodes[k].name = name
  ELSE 0

\* Positions of the dependencies that name no registered unit.
UnknownAt(db, dependencies) ==
  {i \in 1..Len(dependencies) : Lookup(db, dependencies[i]) = 0}

Min(S) == CHOOSE x \in S : \A y \in S : x <= y

\* Register a parallel unit: its node depends on its named dependencies and
\* on every node of the previous barrier generation.
add(db, system, name, dependencies) ==
  IF UnknownAt(db, dependencies) # {}
  THEN ExecResult(Err("UnknownDependency",
                      dependencies[Min(UnknownAt(db, dependencies))]), db)
  ELSE IF Lookup(db, name) # 0
  THEN ExecResult(Err("DuplicateName", name), db)
  ELSE ExecResult(NoError,
         [db EXCEPT !.nodes = Append(@,
            Node(system, name,
                 {Lookup(db, dependencies[i]) : i \in 1..Len(dependencies)}
                   \cup {k \in 1..Len(db.nodes) : db.nodes[k].gen = db.gen - 1},
                 db.gen))])

\* A barrier opens a new generation only when the current one has a node.
add_barrier(db) ==
  IF \E k \in 1..Len(db.nodes) : db.nodes[k].gen = db.gen
  THEN ExecResult(NoError, [db EXCEPT !.gen = @ + 1])
  ELSE ExecResult(NoError, db)

add_thread_local(db, system) ==
  ExecResult(NoError, [db EXCEPT !.thread_local = Append(@, system)])

\* SystemBundle::build: the bundle's calls in order, stopping at a failure,
\* then the bundle's own Result.
RECURSIVE bundle_build(_, _, _, _)
bundle_build(bundle, id, j, db) ==
  IF j > Len(bundle.calls)
  THEN IF bundle.result = "Err"
       THEN ExecResult(Err("BundleExpansionFailed", ""), db)
       ELSE ExecResult(NoError, db)
  ELSE LET c == bundle.calls[j]
           r == CASE c.kind = "add" ->
                       add(db, <<id[1], j>>, c.name, c.dependencies)
                  [] c.kind = "add_barrier" -> add_barrier(db)
                  [] OTHER -> add_thread_local(db, <<id[1], j>>)
       IN IF r.err # NoError THEN r ELSE bundle_build(bundle, id, j + 1, r.db)

\* DispatcherOperation::exec of each operation.
exec(operation, db) ==
  CASE operation.op \in {"AddSystem", "AddSystemDesc"} ->
         add(db, operation.system, operation.name, operation.dependencies)
    [] operation.op = "AddBarrier" -> add_barrier(db)
    [] operation.op \in {"AddThreadLocal", "AddThreadLocalDesc"} ->
         add_thread_local(db, operation.system)
    [] OTHER -> bundle_build(operation.bundle, operation.system, 1, db)

(***************************************************************************)
(* DataInit::build                                                         *)
(***************************************************************************)
None == [some |-> FALSE, nodes |-> <<>>, thread_local |-> <<>>]
Some(db) == [some |-> TRUE, nodes |-> db.nodes, thread_local |-> db.thread_local]

\* A replay that executes every operation and answers with the first Err.
RECURSIVE try_for_each_all(_, _)
try_for_each_all(ops, db) ==
  IF ops = <<>> THEN ExecResult(NoError, db)
  ELSE LET r == exec(Head(ops), db)
           rest == try_for_each_all(Tail(ops), r.db)
       IN ExecResult(IF r.err # NoError THEN r.err ELSE rest.err, rest.db)

\* Iterator::try_for_each: stops at the first Err.
RECURSIVE try_for_each(_, _)
try_for_each(ops, db) ==
  IF ops = <<>> THEN ExecResult(NoError, db)
  ELSE LET r == exec(Head(ops), db)
       IN IF r.err # NoError THEN r ELSE try_for_each(Tail(ops), r.db)

\* A replay that goes on after a failed operation.
RECURSIVE for_each_ignoring(_, _)
for_each_ignoring(ops, db) ==
  IF ops = <<>> THEN ExecResult(NoError, db)
  ELSE for_each_ignoring(Tail(ops), exec(Head(ops), db).db)

BuildResult(panic, error, dispatcher) ==
  [panic |-> panic, error |-> error, dispatcher |-> dispatcher]

\* build without the unwrap_or_else(panic).
build_ignoring_errors(ops) ==
  BuildResult("", NoError, Some(for_each_ignoring(ops, disp_builder).db))

RECURSIVE Reverse(_)
Reverse(s) == IF s = <<>> THEN <<>> ELSE Append(Reverse(Tail(s)), Head(s))

\* build replaying the log from its end.
build_reversed(ops) ==
  LET r == try_for_each(Reverse(ops), disp_builder)
  IN IF r.err # NoError
     THEN BuildResult("Failed to set up dispatcher", r.err, None)
     ELSE BuildResult("", NoError, Some(r.db))

build(ops) ==
  LET r == try_for_each(ops, disp_builder)
  IN IF r.err # NoError
     THEN BuildResult("Failed to set up dispatcher", r.err, None)
     ELSE BuildResult("", NoError, Some(r.db))

(***************************************************************************)
(* What a builder call registers, in order: a bundle stands for the calls  *)
(* its build makes, at the bundle's place.                                 *)
(***************************************************************************)
Reg(kind, system, name, dependencies, at) ==
  [kind |-> kind, system |-> system, name |-> name,
   dependencies |-> dependencies, at |-> at]

BundleRegs(c) ==
  [j \in 1..Len(c.bundle.calls) |->
     LET b == c.bundle.calls[j]
     IN Reg(IF b.kind = "add" THEN "unit"
            ELSE IF b.kind = "add_barrier" THEN "barrier" ELSE "thread_local",
            <<c.system[1], j>>, b.name, b.dependencies, c.system[1])]
  \o (IF c.bundle.result = "Err"
      THEN <<Reg("fail", c.system, "", <<>>, c.system[1])>> ELSE <<>>)

RegsOf(c) ==
  CASE c.call \in {"with", "with_system_desc"} ->
         <<Reg("unit", c.system, c.name, c.dependencies, c.system[1])>>
    [] c.call \in {"with_thread_local", "with_thread_local_desc"} ->
         <<Reg("thread_local", c.system, "", <<>>, c.system[1])>>
    [] c.call = "with_barrier" ->
         <<Reg("barrier", c.system, "", <<>>, c.system[1])>>
    [] OTHER -> BundleRegs(c)

(***************************************************************************)
(* The legion-ecs feature: the migration methods of GameDataBuilder. Each  *)
(* returns the new value of the builder field it pushes to.                *)
(***************************************************************************)
\* Values the caller seeds the primary world's resource with.
Seeds == {"v1", "v2"}

\* What a system's construction closure does to the LegionWorld it is given.
Descs == {"pure", "mutating"}

LegionEntry(kind, desc) == [kind |-> kind, desc |-> desc]

\* migration_resource_sync forgetting its syncer.
migration_resource_sync_dropped(syncers) == syncers

migration_resource_sync(syncers) == Append(syncers, "ResourceSyncer")

migration_component_sync(syncers) == Append(syncers, "ComponentSyncer")

migration_component_sync_with(syncers) == Append(syncers, "ComponentSyncerWith")

migration_sync_bundle(builders, syncer) == Append(builders, syncer)

migration_with_thread_local(mdb, desc) ==
  Append(mdb, LegionEntry("thread_local", desc))

migration_with_system(mdb, desc) == Append(mdb, LegionEntry("system", desc))

migration_with_bundle(mdb, bundle) == Append(mdb, LegionEntry("bundle", bundle))

\* What the method hands back to its caller: the builder (Self), or nothing.
returns(method) ==
  IF method = "migration_component_sync_with" THEN "()" ELSE "Self"

(***************************************************************************)
(* The worlds, the LegionState and the syncers build works on.             *)
(***************************************************************************)
\* The primary World: one resource and one entity carrying a component.
specs_world == [res |-> "none", entities |-> 1]

\* LegionState::default(): no syncer, an unprepared secondary world, an
\* empty entity bimap.
legion_state ==
  [syncers |-> <<>>,
   world |-> [prepared |-> FALSE, res |-> "none", entities |-> 0],
   bimap |-> 0]

\* legion::temp::setup: prepares the secondary world.
temp_setup(w, state) == [state EXCEPT !.world.prepared = TRUE]

\* LegionSyncBuilder::prepare: the sync bundle adds its syncer to the state.
prepare(builder, w, state) ==
  [state EXCEPT !.syncers = Append(@, "ComponentSyncer")]

SyncResult(w, state) == [world |-> w, state |-> state]

\* SyncerTrait::sync: a resource syncer copies the resource, a component
\* syncer gives every entity not yet in the bimap a counterpart, in the
\* direction asked for; the syncer list is not touched.
sync(syncer, w, state, direction) ==
  IF syncer = "ResourceSyncer"
  THEN IF direction = "SpecsToLegion"
       THEN SyncResult(w, IF w.res = "none" THEN state
                          ELSE [state EXCEPT !.world.res = w.res])
       ELSE SyncResult(IF state.world.res = "none" THEN w
                       ELSE [w EXCEPT !.res = state.world.res], state)
  ELSE IF direction = "SpecsToLegion"
       THEN SyncResult(w, [state EXCEPT
                             !.world.entities = @ + (w.entities - state.bimap),
                             !.bimap = w.entities])
       ELSE SyncResult([w EXCEPT !.entities =
                                   @ + (state.world.entities - state.bimap)],
                       [state EXCEPT !.bimap = state.world.entities])

\* LegionDispatcherBuilder::build: runs the construction closures on the
\* secondary world; a mutating one rewrites the resource and spawns an entity.
RECURSIVE constructed(_, _)
constructed(mdb, lw) ==
  IF mdb = <<>> THEN lw
  ELSE constructed(Tail(mdb),
         IF Head(mdb).desc = "mutating"
         THEN [lw EXCEPT !.res = "mutated", !.entities = @ + 1]
         ELSE lw)

\* The entity channel delivers an event to a bound listener only.
deliver(l, n) == IF l.bound THEN [l EXCEPT !.buffered = @ + n] ELSE l

(***************************************************************************)
(* DataInit::build with the legion-ecs feature.                            *)
(***************************************************************************)
\* build preparing the secondary world before replaying the log.
build_statements_prepare_first ==
  << "temp_setup", "replay", "prepare", "extend", "setup", "SpecsToLegion",
     "build_migration", "LegionToSpecs", "new" >>

\* build with the sync back to specs before the migration dispatcher is built.
build_statements_sync_back_early ==
  << "replay", "temp_setup", "prepare", "extend", "setup", "SpecsToLegion",
     "LegionToSpecs", "build_migration", "new" >>

\* The statements of build, in program order.
build_statements ==
  << "replay", "temp_setup", "prepare", "extend", "setup", "SpecsToLegion",
     "build_migration", "LegionToSpecs", "new" >>

\* The statements that call every syncer of migration_state.syncers.
Passes == {"setup", "SpecsToLegion", "LegionToSpecs"}

\* migration_state.syncers.extend(self.migration_syncers.into_iter()).
extend(state, syncers) == [state EXCEPT !.syncers = @ \o syncers]

\* An iteration that hands out the next syncer while a call is running.
for_each_parallel(in_call) == TRUE

\* Iterator::for_each: the next call begins when the previous one returned.
for_each(in_call) == in_call = {}

\* A sync call that takes its syncer out of the list.
sync_call_draining(state, k, w, direction) ==
  LET r == sync(state.syncers[k], w, state, direction)
  IN SyncResult(r.world,
       [r.state EXCEPT !.syncers =
          SubSeq(@, 1, k - 1) \o SubSeq(@, k + 1, Len(@))])

\* s.sync(world, &mut *state, direction): the syncer at position k of the
\* list is given the whole state the list is part of.
sync_call(state, k, w, direction) == sync(state.syncers[k], w, state, direction)

\* entity_channel().bind_listener(2048)
ListenerCapacity == 2048
NoListener == [bound |-> FALSE, capacity |-> 0, buffered |-> 0]
NoMigrationDispatcher == [some |-> FALSE, entries |-> <<>>]
bind_listener(capacity) == [bound |-> TRUE, capacity |-> capacity, buffered |-> 0]

(***************************************************************************)
(* State                                                                   *)
(***************************************************************************)
VARIABLES
  dispatcher_operations, \* GameDataBuilder.dispatcher_operations
  calls,                 \* the builder calls as the caller made them
  registered,            \* what those calls registered, in log order
  phase,                 \* "builder" | "handle" | "panicked"
  panic,                 \* the panic message of build ("" when none)
  error,                 \* the Error build panicked with
  dispatcher,            \* GameData.dispatcher : Option<Dispatcher>
  pc,                    \* "idle" | "dispatch": inside Dispatcher::dispatch
  running,               \* nodes executing on the pool in this dispatch
  done,                  \* nodes completed in this dispatch
  tlRun,                 \* thread-local systems run in this dispatch
  ticked,                \* a dispatch has completed on this handle
  disposed,              \* dispose has been called on this handle
  updateOutcome,         \* how the latest update call ended
  executed,              \* the DispatcherBuilder as build's replay left it
  disposeCalls,          \* dispose calls made on this handle
  teardowns,             \* Dispatcher::dispose calls made by them
  pool                   \* threads of the ArcThreadPool resource of the world

\* The state of the legion-ecs feature (the bridge to the secondary world).
VARIABLES
  migration_syncers,            \* GameDataBuilder.migration_syncers
  migration_sync_builders,      \* GameDataBuilder.migration_sync_builders
  migration_dispatcher_builder, \* GameDataBuilder.migration_dispatcher_builder
  migration_calls,       \* the migration methods as the caller called them
  world,                 \* the primary World handed to build
  seed,                  \* the value the caller seeded its resource with
  migration_state,       \* the LegionState handed to build
  bpc,                   \* the statement of build being executed (0: none)
  called,                \* syncer calls begun in the pass being executed
  inCall,                \* syncers (list positions) whose call has not returned
  trace,                 \* what build has done so far, in order
  migration_dispatcher,  \* GameData.migration_dispatcher
  listener               \* GameData.migration_sync_entities_id and its buffer

vars == <<dispatcher_operations, calls, registered, phase, panic, error, dispatcher, pc,
          running, done, tlRun, ticked, disposed, updateOutcome, executed,
          disposeCalls, teardowns, pool, migration_syncers, migration_sync_builders,
          migration_dispatcher_builder, migration_calls, world, seed,
          migration_state, bpc, called,
          inCall, trace, migration_dispatcher, listener>>

builderVars == <<dispatcher_operations, calls, registered>>
buildVars == <<phase, panic, error, executed>>
disposeVars == <<disposed, disposeCalls, teardowns>>
migrationBuilderVars ==
  <<migration_syncers, migration_sync_builders, migration_dispatcher_builder,
    migration_calls>>
migrationBuildVars ==
  <<migration_state, bpc, called, inCall, trace, migration_dispatcher, listener>>
bridgeVars == <<migrationBuilderVars, world, seed, migrationBuildVars>>
tickVars == <<pc, running, done, tlRun, ticked, updateOutcome>>

Call(call, system, name, dependencies, bundle) ==
  [call |-> call, system |-> system, name |-> name,
   dependencies |-> dependencies, bundle |-> bundle]

\* The payload handed to the next builder call.
NextSystem == <<Len(calls) + 1, 0>>

\* The histories of a builder call.
Record(c) ==
  /\ calls' = Append(calls, c)
  /\ registered' = registered \o RegsOf(c)

\* The state before the first builder call, the world holding a pool of n threads.
Start(n) ==
  /\ dispatcher_operations = <<>>
  /\ calls = <<>>
  /\ registered = <<>>
  /\ phase = "builder"
  /\ panic = ""
  /\ error = NoError
  /\ dispatcher = None
  /\ pc = "idle"
  /\ running = {}
  /\ done = {}
  /\ tlRun = <<>>
  /\ ticked = FALSE
  /\ disposed = FALSE
  /\ updateOutcome = "none"
  /\ executed = disp_builder
  /\ disposeCalls = 0
  /\ teardowns = 0
  /\ migration_syncers = <<>>
  /\ migration_sync_builders = <<>>
  /\ migration_dispatcher_builder = <<>>
  /\ migration_calls = <<>>
  /\ world = specs_world
  /\ seed = "none"
  /\ migration_state = legion_state
  /\ bpc = 0
  /\ called = 0
  /\ inCall = {}
  /\ trace = <<>>
  /\ migration_dispatcher = NoMigrationDispatcher
  /\ listener = NoListener
  /\ pool = n

Init == Start(NumWorkers)

\* The same with a pool of any size from one thread up.
LiveInit == \E n \in 1..NumWorkers : Start(n)

CanRegister == phase = "builder" /\ Len(calls) < MaxOps

With ==
  /\ CanRegister
  /\ \E a \in WithArgs :
       /\ dispatcher_operations' = with(dispatcher_operations, NextSystem, a[1], a[2])
       /\ Record(Call("with", NextSystem, a[1], a[2], NoBundle))
  /\ UNCHANGED <<buildVars, dispatcher, tickVars, disposeVars, pool, bridgeVars>>

WithSystemDesc ==
  /\ CanRegister
  /\ \E a \in DescArgs :
       /\ dispatcher_operations' =
            with_system_desc(dispatcher_operations, NextSystem, a[1], a[2])
       /\ Record(Call("with_system_desc", NextSystem, a[1], a[2], NoBundle))
  /\ UNCHANGED <<buildVars, dispatcher, tickVars, disposeVars, pool, bridgeVars>>

WithBarrier ==
  /\ CanRegister
  /\ dispatcher_operations' = with_barrier(dispatcher_operations)
  /\ Record(Call("with_barrier", NextSystem, "", <<>>, NoBundle))
  /\ UNCHANGED <<buildVars, dispatcher, tickVars, disposeVars, pool, bridgeVars>>

WithThreadLocal ==
  /\ CanRegister
  /\ dispatcher_operations' = with_thread_local(dispatcher_operations, NextSystem)
  /\ Record(Call("with_thread_local", NextSystem, "", <<>>, NoBundle))
  /\ UNCHANGED <<buildVars, dispatcher, tickVars, disposeVars, pool, bridgeVars>>

WithThreadLocalDesc ==
  /\ CanRegister
  /\ dispatcher_operations' =
       with_thread_local_desc(dispatcher_operations, NextSystem)
  /\ Record(Call("with_thread_local_desc", NextSystem, "", <<>>, NoBundle))
  /\ UNCHANGED <<buildVars, dispatcher, tickVars, disposeVars, pool, bridgeVars>>

WithBundle ==
  /\ CanRegister
  /\ \E b \in Bundles :
       /\ dispatcher_operations' = with_bundle(dispatcher_operations, NextSystem, b)
       /\ Record(Call("with_bundle", NextSystem, "", <<>>, b))
  /\ UNCHANGED <<buildVars, dispatcher, tickVars, disposeVars, pool, bridgeVars>>

\* DataInit::build: consumes the builder; panics or returns GameData::new.
Build ==
  /\ phase = "builder"
  /\ LET r == build(dispatcher_operations)
     IN /\ phase' = IF r.panic # "" THEN "panicked" ELSE "handle"
        /\ panic' = r.panic
        /\ error' = r.error
        /\ dispatcher' = r.dispatcher
  /\ executed' = try_for_each(dispatcher_operations, disp_builder).db
  /\ dispatcher_operations' = <<>>
  /\ UNCHANGED <<calls, registered, tickVars, disposeVars, pool, bridgeVars>>

Nodes == 1..Len(dispatcher.nodes)

\* GameData::update: dispatch when the dispatcher is there, else nothing.
Update ==
  /\ phase = "handle"
  /\ pc = "idle"
  /\ IF dispatcher.some
     THEN /\ pc' = "dispatch"
          /\ running' = {}
          /\ done' = {}
          /\ tlRun' = <<>>
          /\ updateOutcome' = "dispatched"
          /\ UNCHANGED ticked
     ELSE /\ updateOutcome' = "skipped"
          /\ UNCHANGED <<pc, running, done, tlRun, ticked>>
  /\ UNCHANGED <<builderVars, buildVars, dispatcher, disposeVars, pool, bridgeVars>>

\* The pool starts a node once all the nodes it depends on have completed.
StartUnit(k) ==
  /\ pc = "dispatch"
  /\ k \in Nodes \ (running \cup done)
  /\ dispatcher.nodes[k].deps \subseteq done
  /\ Cardinality(running) < pool
  /\ running' = running \cup {k}
  /\ UNCHANGED <<builderVars, buildVars, dispatcher, pc, done, tlRun, ticked,
                 disposeVars, pool, updateOutcome, bridgeVars>>

FinishUnit(k) ==
  /\ pc = "dispatch"
  /\ k \in running
  /\ running' = running \ {k}
  /\ done' = done \cup {k}
  /\ UNCHANGED <<builderVars, buildVars, dispatcher, pc, tlRun, ticked,
                 disposeVars, pool, updateOutcome, bridgeVars>>

\* After the pool has joined, the calling thread runs the thread-local
\* systems one by one in the order of the dispatcher's list.
RunThreadLocal ==
  /\ pc = "dispatch"
  /\ done = Nodes
  /\ Len(tlRun) < Len(dispatcher.thread_local)
  /\ tlRun' = Append(tlRun, dispatcher.thread_local[Len(tlRun) + 1])
  /\ UNCHANGED <<builderVars, buildVars, dispatcher, pc, running, done, ticked,
                 disposeVars, pool, updateOutcome, bridgeVars>>

DispatchReturn ==
  /\ pc = "dispatch"
  /\ done = Nodes
  /\ Len(tlRun) = Len(dispatcher.thread_local)
  /\ pc' = "idle"
  /\ ticked' = TRUE
  /\ UNCHANGED <<builderVars, buildVars, dispatcher, running, done, tlRun,
                 disposeVars, pool, updateOutcome, bridgeVars>>

\* dispose leaving the dispatcher in place (as_ref instead of take).
dispose_keeping(d) == d

\* GameData::dispose: self.dispatcher.take(), then Dispatcher::dispose.
dispose(d) == None

\* Dispatcher::dispose runs when take() returned Some.
teardown(d) == IF d.some THEN 1 ELSE 0

Dispose ==
  /\ phase = "handle"
  /\ pc = "idle"
  /\ disposeCalls < MaxDisposes
  /\ teardowns' = teardowns + teardown(dispatcher)
  /\ dispatcher' = dispose(dispatcher)
  /\ disposed' = TRUE
  /\ disposeCalls' = disposeCalls + 1
  /\ UNCHANGED <<builderVars, buildVars, tickVars, pool, bridgeVars>>

\* <GameData as DataDispose>::dispose: calls GameData::dispose.
DataDisposeDispose == Dispose

Next ==
  \/ With
  \/ WithSystemDesc
  \/ WithBarrier
  \/ WithThreadLocal
  \/ WithThreadLocalDesc
  \/ WithBundle
  \/ Build
  \/ Update
  \/ \E k \in 1..(3 * MaxOps) : StartUnit(k)
  \/ \E k \in 1..(3 * MaxOps) : FinishUnit(k)
  \/ RunThreadLocal
  \/ DispatchReturn
  \/ Dispose
  \/ DataDisposeDispose

Spec == Init /\ [][Next]_vars

(***************************************************************************)
(* Progress of a tick: the pool, of any size, goes on starting the nodes   *)
(* that are ready, every payload returns, and the calling thread goes on   *)
(* through the thread-local systems and returns from dispatch.             *)
(***************************************************************************)
LiveCanRegister == Len(calls) < MaxLiveOps

LiveNext ==
  \/ LiveCanRegister /\ With
  \/ LiveCanRegister /\ WithSystemDesc
  \/ LiveCanRegister /\ WithBarrier
  \/ LiveCanRegister /\ WithThreadLocal
  \/ LiveCanRegister /\ WithThreadLocalDesc
  \/ LiveCanRegister /\ WithBundle
  \/ Build
  \/ Update
  \/ \E k \in 1..(3 * MaxLiveOps) : StartUnit(k)
  \/ \E k \in 1..(3 * MaxLiveOps) : FinishUnit(k)
  \/ RunThreadLocal
  \/ DispatchReturn
  \/ Dispose
  \/ DataDisposeDispose

LiveSpec ==
  /\ LiveInit
  /\ [][LiveNext]_vars
  /\ WF_vars(\E k \in 1..(3 * MaxLiveOps) : StartUnit(k))
  /\ WF_vars(\E k \in 1..(3 * MaxLiveOps) : FinishUnit(k))
  /\ WF_vars(RunThreadLocal)
  /\ WF_vars(DispatchReturn)

(***************************************************************************)
(* The legion-ecs feature: builder calls, build statement by statement,    *)
(* update and dispose.                                                     *)
(***************************************************************************)
BridgeCanCall ==
  phase = "builder" /\ Len(calls) + Len(migration_calls) < MaxBridgeCalls

\* What a migration method leaves alone, and what the caller holds after it.
MigrationCall(method) ==
  /\ BridgeCanCall
  /\ migration_calls' = Append(migration_calls, method)
  /\ phase' = IF returns(method) = "Self" THEN "builder" ELSE "dropped"
  /\ UNCHANGED <<builderVars, panic, error, executed, dispatcher, tickVars,
                 disposeVars, pool, world, seed, migrationBuildVars>>

MigrationResourceSync ==
  /\ MigrationCall("migration_resource_sync")
  /\ migration_syncers' = migration_resource_sync(migration_syncers)
  /\ UNCHANGED <<migration_sync_builders, migration_dispatcher_builder>>

MigrationComponentSync ==
  /\ MigrationCall("migration_component_sync")
  /\ migration_syncers' = migration_component_sync(migration_syncers)
  /\ UNCHANGED <<migration_sync_builders, migration_dispatcher_builder>>

MigrationComponentSyncWith ==
  /\ MigrationCall("migration_component_sync_with")
  /\ migration_syncers' = migration_component_sync_with(migration_syncers)
  /\ UNCHANGED <<migration_sync_builders, migration_dispatcher_builder>>

MigrationSyncBundle ==
  /\ MigrationCall("migration_sync_bundle")
  /\ migration_sync_builders' =
       migration_sync_bundle(migration_sync_builders, "SyncBundle")
  /\ UNCHANGED <<migration_syncers, migration_dispatcher_builder>>

MigrationWithThreadLocal ==
  /\ MigrationCall("migration_with_thread_local")
  /\ migration_dispatcher_builder' =
       migration_with_thread_local(migration_dispatcher_builder, "pure")
  /\ UNCHANGED <<migration_syncers, migration_sync_builders>>

MigrationWithSystem ==
  /\ MigrationCall("migration_with_system")
  /\ \E desc \in Descs :
       migration_dispatcher_builder' =
         migration_with_system(migration_dispatcher_builder, desc)
  /\ UNCHANGED <<migration_syncers, migration_sync_builders>>

MigrationWithBundle ==
  /\ MigrationCall("migration_with_bundle")
  /\ migration_dispatcher_builder' =
       migration_with_bundle(migration_dispatcher_builder, "pure")
  /\ UNCHANGED <<migration_syncers, migration_sync_builders>>

\* The caller seeds the primary world's resource before build.
InsertResource(v) ==
  /\ phase = "builder"
  /\ world.res = "none"
  /\ world' = [world EXCEPT !.res = v]
  /\ seed' = v
  /\ UNCHANGED <<builderVars, buildVars, dispatcher, tickVars, disposeVars, pool,
                 migrationBuilderVars, migrationBuildVars>>

\* The call of build: the builder is consumed.
LegionBuild ==
  /\ phase = "builder"
  /\ phase' = "building"
  /\ bpc' = 1
  /\ UNCHANGED <<builderVars, panic, error, executed, dispatcher, tickVars,
                 disposeVars, pool, migrationBuilderVars, world, seed, migration_state,
                 called, inCall, trace, migration_dispatcher, listener>>

At(statement) ==
  /\ phase = "building"
  /\ bpc \in 1..Len(build_statements)
  /\ build_statements[bpc] = statement

Did(statement, k) == trace' = Append(trace, <<statement, k>>)

\* The replay of the operation log, dispatcher_builder.build() and
\* dispatcher.setup, as in the build without the feature.
Replay ==
  /\ At("replay")
  /\ LET r == build(dispatcher_operations)
     IN /\ phase' = IF r.panic # "" THEN "panicked" ELSE "building"
        /\ panic' = r.panic
        /\ error' = r.error
        /\ dispatcher' = r.dispatcher
        /\ bpc' = IF r.panic # "" THEN 0 ELSE bpc + 1
  /\ executed' = try_for_each(dispatcher_operations, disp_builder).db
  /\ dispatcher_operations' = <<>>
  /\ Did("replay", 0)
  /\ UNCHANGED <<calls, registered, tickVars, disposeVars, pool, migrationBuilderVars,
                 world, seed, migration_state, called, inCall, migration_dispatcher,
                 listener>>

TempSetup ==
  /\ At("temp_setup")
  /\ migration_state' = temp_setup(world, migration_state)
  /\ bpc' = bpc + 1
  /\ Did("temp_setup", 0)
  /\ UNCHANGED <<builderVars, buildVars, dispatcher, tickVars, disposeVars, pool,
                 migrationBuilderVars, world, seed, called, inCall,
                 migration_dispatcher, listener>>

RECURSIVE prepare_all(_, _, _)
prepare_all(builders, w, state) ==
  IF builders = <<>> THEN state
  ELSE prepare_all(Tail(builders), w, prepare(Head(builders), w, state))

\* self.migration_sync_builders.into_iter().for_each(prepare)
PrepareSyncBuilders ==
  /\ At("prepare")
  /\ migration_state' = prepare_all(migration_sync_builders, world, migration_state)
  /\ migration_sync_builders' = <<>>
  /\ bpc' = bpc + 1
  /\ Did("prepare", 0)
  /\ UNCHANGED <<builderVars, buildVars, dispatcher, tickVars, disposeVars, pool,
                 migration_syncers, migration_dispatcher_builder, migration_calls,
                 world, seed, called, inCall, migration_dispatcher, listener>>

ExtendSyncers ==
  /\ At("extend")
  /\ migration_state' = extend(migration_state, migration_syncers)
  /\ migration_syncers' = <<>>
  /\ bpc' = bpc + 1
  /\ Did("extend", 0)
  /\ UNCHANGED <<builderVars, buildVars, dispatcher, tickVars, disposeVars, pool,
                 migration_sync_builders, migration_dispatcher_builder,
                 migration_calls, world, seed, called, inCall, migration_dispatcher,
                 listener>>

\* The iteration of a pass calls the next syncer of the list.
SyncerCallBegin(pass) ==
  /\ At(pass)
  /\ called < Len(migration_state.syncers)
  /\ for_each(inCall)
  /\ called' = called + 1
  /\ inCall' = inCall \cup {called + 1}
  /\ Did(pass, called + 1)
  /\ UNCHANGED <<builderVars, buildVars, dispatcher, tickVars, disposeVars, pool,
                 migrationBuilderVars, world, seed, migration_state, bpc,
                 migration_dispatcher, listener>>

\* The call returns: setup has registered the syncer's storage, sync has
\* copied in its direction.
SyncerCallEnd(pass, k) ==
  /\ At(pass)
  /\ k \in inCall
  /\ inCall' = inCall \ {k}
  /\ IF pass = "setup"
     THEN UNCHANGED <<world, migration_state, listener>>
     ELSE LET r == sync_call(migration_state, k, world, pass)
          IN /\ world' = r.world
             /\ migration_state' = r.state
             /\ listener' = deliver(listener, r.state.world.entities
                                               - migration_state.world.entities)
  /\ UNCHANGED <<builderVars, buildVars, dispatcher, tickVars, disposeVars, pool,
                 migrationBuilderVars, seed, bpc, called, trace,
                 migration_dispatcher>>

PassEnd(pass) ==
  /\ At(pass)
  /\ called = Len(migration_state.syncers)
  /\ inCall = {}
  /\ called' = 0
  /\ bpc' = bpc + 1
  /\ UNCHANGED <<builderVars, buildVars, dispatcher, tickVars, disposeVars, pool,
                 migrationBuilderVars, world, seed, migration_state, inCall, trace,
                 migration_dispatcher, listener>>

\* migration_dispatcher_builder.build(&mut migration_state.world)
BuildMigrationDispatcher ==
  /\ At("build_migration")
  /\ LET lw == constructed(migration_dispatcher_builder, migration_state.world)
     IN /\ migration_state' = [migration_state EXCEPT !.world = lw]
        /\ listener' = deliver(listener, lw.entities
                                          - migration_state.world.entities)
  /\ migration_dispatcher' =
       [some |-> TRUE, entries |-> migration_dispatcher_builder]
  /\ migration_dispatcher_builder' = <<>>
  /\ bpc' = bpc + 1
  /\ Did("build_migration", 0)
  /\ UNCHANGED <<builderVars, buildVars, dispatcher, tickVars, disposeVars, pool,
                 migration_syncers, migration_sync_builders, migration_calls,
                 world, seed, called, inCall>>

\* GameData::new(dispatcher, migration_dispatcher, bind_listener(2048)).
New ==
  /\ At("new")
  /\ listener' = bind_listener(ListenerCapacity)
  /\ trace' = trace \o << <<"bind_listener", 0>>, <<"new", 0>> >>
  /\ phase' = "handle"
  /\ bpc' = bpc + 1
  /\ UNCHANGED <<builderVars, panic, error, executed, dispatcher, tickVars,
                 disposeVars, pool, migrationBuilderVars, world, seed, migration_state,
                 called, inCall, migration_dispatcher>>

\* GameData::update with the feature: an empty body.
LegionUpdate ==
  /\ phase = "handle"
  /\ updateOutcome' = "returned"
  /\ UNCHANGED <<builderVars, buildVars, dispatcher, pc, running, done, tlRun,
                 ticked, disposeVars, pool, bridgeVars>>

BridgeNext ==
  \/ BridgeCanCall /\ With
  \/ BridgeCanCall /\ WithSystemDesc
  \/ BridgeCanCall /\ WithBarrier
  \/ BridgeCanCall /\ WithThreadLocal
  \/ BridgeCanCall /\ WithThreadLocalDesc
  \/ BridgeCanCall /\ WithBundle
  \/ MigrationResourceSync
  \/ MigrationComponentSync
  \/ MigrationComponentSyncWith
  \/ MigrationSyncBundle
  \/ MigrationWithThreadLocal
  \/ MigrationWithSystem
  \/ MigrationWithBundle
  \/ \E v \in Seeds : InsertResource(v)
  \/ LegionBuild
  \/ Replay
  \/ TempSetup
  \/ PrepareSyncBuilders
  \/ ExtendSyncers
  \/ \E pass \in Passes : SyncerCallBegin(pass)
  \/ \E pass \in Passes : \E k \in 1..MaxBridgeCalls : SyncerCallEnd(pass, k)
  \/ \E pass \in Passes : PassEnd(pass)
  \/ BuildMigrationDispatcher
  \/ New
  \/ LegionUpdate
  \/ Dispose
  \/ DataDisposeDispose

BridgeSpec == Init /\ [][BridgeNext]_vars

\* The log the builder methods make of a sequence of calls.
RECURSIVE LogOf(_)
LogOf(cs) ==
  IF cs = <<>> THEN <<>>
  ELSE LET c == cs[Len(cs)]
           ops == LogOf(SubSeq(cs, 1, Len(cs) - 1))
       IN CASE c.call = "with" -> with(ops, c.system, c.name, c.dependencies)
            [] c.call = "with_system_desc" ->
                 with_system_desc(ops, c.system, c.name, c.dependencies)
            [] c.call = "with_barrier" -> with_barrier(ops)
            [] c.call = "with_thread_local" -> with_thread_local(ops, c.system)
            [] c.call = "with_thread_local_desc" ->
                 with_thread_local_desc(ops, c.system)
            [] OTHER -> with_bundle(ops, c.system, c.bundle)

RemoveAt(s, i) == SubSeq(s, 1, i - 1) \o SubSeq(s, i + 1, Len(s))

\* build has returned (or panicked) and nothing has been called since.
JustBuilt ==
  phase # "builder" /\ ~disposed /\ updateOutcome = "none" /\ pc = "idle"

\* What build returned for the calls made (the handle as build left it).
Outcome == BuildResult(panic, error, dispatcher)

Started(system) ==
  \E k \in Nodes : dispatcher.nodes[k].system = system /\ k \in running \cup done

Completed(system) ==
  \E k \in Nodes : dispatcher.nodes[k].system = system /\ k \in done

ThreadLocalRan(system) == \E p \in 1..Len(tlRun) : tlRun[p] = system

NodeOf(system) == CHOOSE k \in Nodes : dispatcher.nodes[k].system = system

NamesDep(r, name) ==
  \E p \in 1..Len(r.dependencies) : r.dependencies[p] = name

KnownBefore(R, i, d) ==
  d # "" /\ \E j \in 1..(i - 1) : R[j].kind = "unit" /\ R[j].name = d

UnknownDep(R, i) ==
  /\ R[i].kind = "unit"
  /\ \E p \in 1..Len(R[i].dependencies) : ~KnownBefore(R, i, R[i].dependencies[p])

FirstUnknown(R, i) ==
  R[i].dependencies[Min({p \in 1..Len(R[i].dependencies) :
                           ~KnownBefore(R, i, R[i].dependencies[p])})]

Duplicate(R, i) ==
  /\ R[i].kind = "unit"
  /\ R[i].name # ""
  /\ \E j \in 1..(i - 1) : R[j].kind = "unit" /\ R[j].name = R[i].name

Invalid(R, i) == UnknownDep(R, i) \/ Duplicate(R, i) \/ R[i].kind = "fail"

Valid(R) == \A i \in 1..Len(R) : ~Invalid(R, i)

FirstInvalid(R) == Min({i \in 1..Len(R) : Invalid(R, i)})

\* No parallel unit is registered between the previous barrier (or the
\* start of the log) and registration m.
NoUnitSinceBarrier(R, m) ==
  \A j \in 1..(m - 1) :
    R[j].kind = "unit" => \E b \in (j + 1)..(m - 1) : R[b].kind = "barrier"

ThreadLocalRegs(R) ==
  SelectSeq(R, LAMBDA r : r.kind = "thread_local")

Systems(R) == [i \in 1..Len(R) |-> R[i].system]

(***************************************************************************)
(* Claims                                                                  *)
(***************************************************************************)

\* C1: on every tick of a built handle, a parallel unit that has begun
\* executing has all the units it names as dependencies completed in that tick.
C1_DependenciesCompleteFirst ==
  phase = "handle" =>
    LET R == registered
    IN \A i \in 1..Len(R) :
         (R[i].kind = "unit" /\ Started(R[i].system)) =>
           \A j \in 1..Len(R) :
             (/\ R[j].kind = "unit"
              /\ R[j].name # ""
              /\ NamesDep(R[i], R[j].name))
             => Completed(R[j].system)

\* a, b:[a], c:[a, b] on a repeated tick, c running.
C1_Witness ==
  /\ phase = "handle"
  /\ ticked
  /\ pc = "dispatch"
  /\ Len(calls) = 3
  /\ calls[1].name = "a" /\ calls[1].dependencies = <<>>
  /\ calls[2].name = "b" /\ calls[2].dependencies = <<"a">>
  /\ calls[3].name = "c" /\ calls[3].dependencies = <<"a", "b">>
  /\ 3 \in running

IsABarrierC ==
  /\ Len(calls) = 4
  /\ calls[1].call = "with" /\ calls[1].name = "a" /\ calls[1].dependencies = <<>>
  /\ calls[2].call = "with" /\ calls[2].name = "b" /\ calls[2].dependencies = <<>>
  /\ calls[3].call = "with_barrier"
  /\ calls[4].call = "with" /\ calls[4].name = "c" /\ calls[4].dependencies = <<>>

\* C3: for with(A,"a",[]).with(B,"b",[]).with_barrier().with(C,"c",[]), C has
\* begun only when A and B completed, and neither of A and B waits for the
\* other: whenever a worker is free during a dispatch, each of them that has
\* not begun can begin, whatever the other is doing.
C3_BarrierExample ==
  (phase = "handle" /\ dispatcher.some /\ IsABarrierC) =>
    /\ Started(calls[4].system) =>
         Completed(calls[1].system) /\ Completed(calls[2].system)
    /\ \A i \in {1, 2} :
         (/\ pc = "dispatch"
          /\ ~Started(calls[i].system)
          /\ Cardinality(running) < NumWorkers)
         => ENABLED StartUnit(NodeOf(calls[i].system))

\* A and B executing at the same time.
C3_Witness ==
  /\ phase = "handle"
  /\ IsABarrierC
  /\ pc = "dispatch"
  /\ {NodeOf(calls[1].system), NodeOf(calls[2].system)} \subseteq running

\* C4: on every tick a thread-local unit runs only when every parallel unit
\* of the tick has completed, and the thread-local units run in their
\* registration order.
C4_ThreadLocalLast ==
  (phase = "handle" /\ dispatcher.some) =>
    LET R == registered
    IN /\ tlRun # <<>> =>
            /\ running = {}
            /\ \A u \in 1..Len(R) : R[u].kind = "unit" => Completed(R[u].system)
       /\ Len(tlRun) <= Len(ThreadLocalRegs(R))
       /\ tlRun = SubSeq(Systems(ThreadLocalRegs(R)), 1, Len(tlRun))

\* Two thread-local units and no parallel unit: both have run, in order.
C4_Witness ==
  /\ phase = "handle"
  /\ Len(calls) = 2
  /\ calls[1].call = "with_thread_local"
  /\ calls[2].call = "with_thread_local_desc"
  /\ tlRun = <<calls[1].system, calls[2].system>>

\* C5: when two registered units share a non-empty name, build panics with
\* "Failed to set up dispatcher" and returns no handle; the error is
\* DuplicateName of that name when the repeated registration is the first
\* operation to fail.
C5_DuplicateNameFails ==
  LET R == registered
  IN (JustBuilt /\ \E i \in 1..Len(R) : Duplicate(R, i)) =>
       /\ phase = "panicked"
       /\ panic = "Failed to set up dispatcher"
       /\ dispatcher = None
       /\ (Duplicate(R, FirstInvalid(R)) /\ ~UnknownDep(R, FirstInvalid(R)))
            => error = Err("DuplicateName", R[FirstInvalid(R)].name)

\* A bundle registers b and a barrier, then b is registered directly.
C5_Witness ==
  /\ phase = "panicked"
  /\ Len(calls) = 2
  /\ calls[1].call = "with_bundle" /\ calls[1].bundle = GoodBundle
  /\ calls[2].call = "with" /\ calls[2].name = "b" /\ calls[2].dependencies = <<>>
  /\ error = Err("DuplicateName", "b")

\* C6: a dependency that no earlier registered unit carries makes build panic
\* (with UnknownDependency of that name when it is the first failure), and in
\* a built graph every dependency is a node added earlier.
C6_UnknownDependencyFails ==
  LET R == registered
  IN /\ (JustBuilt /\ \E i \in 1..Len(R) : UnknownDep(R, i)) =>
          /\ phase = "panicked"
          /\ panic = "Failed to set up dispatcher"
          /\ (UnknownDep(R, FirstInvalid(R)) /\ ~Duplicate(R, FirstInvalid(R)))
               => error = Err("UnknownDependency", FirstUnknown(R, FirstInvalid(R)))
     /\ (JustBuilt /\ phase = "handle") =>
          /\ \A k \in Nodes : dispatcher.nodes[k].deps \subseteq 1..(k - 1)
          /\ \A i \in 1..Len(R) :
               R[i].kind = "unit" =>
                 \A p \in 1..Len(R[i].dependencies) :
                   \E j \in 1..(i - 1) :
                     /\ R[j].kind = "unit"
                     /\ R[j].name = R[i].dependencies[p]
                     /\ NodeOf(R[j].system) \in dispatcher.nodes[NodeOf(R[i].system)].deps

\* with(B,"b",["a"]).with(A,"a",[]): the forward reference fails.
C6_Witness ==
  /\ phase = "panicked"
  /\ Len(calls) = 2
  /\ calls[1].name = "b" /\ calls[1].dependencies = <<"a">>
  /\ calls[2].name = "a" /\ calls[2].dependencies = <<>>
  /\ error = Err("UnknownDependency", "a")

EmptyNamed(R) == {i \in 1..Len(R) : R[i].kind = "unit" /\ R[i].name = ""}

\* C7: units named "" never fail as duplicates (a log whose registrations are
\* otherwise valid builds, however many of them are unnamed), and a
\* dependency "" fails as an unknown dependency.
C7_EmptyName ==
  LET R == registered
  IN JustBuilt =>
       /\ (error.kind = "DuplicateName" => error.name # "")
       /\ Valid(R) => phase = "handle"
       /\ (\E i \in 1..Len(R) : R[i].kind = "unit" /\ NamesDep(R[i], "")) =>
            /\ phase = "panicked"
            /\ (/\ R[FirstInvalid(R)].kind = "unit"
                /\ ~Duplicate(R, FirstInvalid(R))
                /\ FirstUnknown(R, FirstInvalid(R)) = "")
               => error = Err("UnknownDependency", "")

\* Two unnamed units are accepted and a third, depending on "", fails.
C7_Witness ==
  /\ phase = "panicked"
  /\ Len(calls) = 3
  /\ calls[1].call = "with" /\ calls[1].name = "" /\ calls[1].dependencies = <<>>
  /\ calls[2].call = "with" /\ calls[2].name = "" /\ calls[2].dependencies = <<>>
  /\ calls[3].call = "with_system_desc"
  /\ calls[3].name = "" /\ calls[3].dependencies = <<"">>
  /\ error = Err("UnknownDependency", "")

\* C8: a with_barrier call with no parallel unit registered since the
\* previous barrier (or the start) changes nothing: build returns what it
\* returns for the same calls without that barrier.
C8_EmptyBarrierNoOp ==
  JustBuilt =>
    LET R == registered
    IN \A m \in 1..Len(R) :
         (/\ R[m].kind = "barrier"
          /\ calls[R[m].at].call = "with_barrier"
          /\ NoUnitSinceBarrier(R, m))
         => Outcome = build(LogOf(RemoveAt(calls, R[m].at)))

\* A leading barrier and two consecutive barriers, built.
C8_Witness ==
  /\ phase = "handle"
  /\ JustBuilt
  /\ Len(calls) = 4
  /\ calls[1].call = "with_barrier"
  /\ calls[2].call = "with" /\ calls[2].name = "a"
  /\ calls[3].call = "with_barrier"
  /\ calls[4].call = "with_barrier"
  /\ Len(dispatcher.nodes) = 1

\* C9: a thread-local unit registered before a barrier runs after the
\* parallel units registered after it, the dispatcher's thread-local list is
\* the thread-local registrations in order whatever barriers lie between
\* them, and a barrier preceded only by thread-local registrations is a no-op.
C9_ThreadLocalExemptFromBarriers ==
  LET R == registered
  IN /\ (phase = "handle" /\ dispatcher.some) =>
          \A t \in 1..Len(R) :
            (R[t].kind = "thread_local" /\ ThreadLocalRan(R[t].system)) =>
              \A m \in (t + 1)..Len(R) :
                R[m].kind = "barrier" =>
                  \A u \in (m + 1)..Len(R) :
                    R[u].kind = "unit" => Completed(R[u].system)
     /\ (JustBuilt /\ phase = "handle") =>
          dispatcher.thread_local = Systems(ThreadLocalRegs(R))
     /\ JustBuilt =>
          \A m \in 1..Len(R) :
            (/\ R[m].kind = "barrier"
             /\ calls[R[m].at].call = "with_barrier"
             /\ NoUnitSinceBarrier(R, m)
             /\ \E t \in 1..(m - 1) :
                  /\ R[t].kind = "thread_local"
                  /\ \A b \in (t + 1)..(m - 1) : R[b].kind # "barrier")
            => Outcome = build(LogOf(RemoveAt(calls, R[m].at)))

\* thread-local, barrier, a, thread-local: both thread-local units have run.
C9_Witness ==
  /\ phase = "handle"
  /\ Len(calls) = 4
  /\ calls[1].call = "with_thread_local"
  /\ calls[2].call = "with_barrier"
  /\ calls[3].call = "with" /\ calls[3].name = "a"
  /\ calls[4].call = "with_thread_local"
  /\ tlRun = <<calls[1].system, calls[4].system>>

\* C10: an update call on a disposed handle never returns normally without
\* dispatching; it is fatal.
C10_PostDisposeUseIsFatal ==
  updateOutcome = "skipped" => panic # ""

\* What update does on a disposed handle: it returns normally without
\* dispatching anything, with no panic, and the handle stays without its
\* dispatcher.
PostDisposeUpdateIsSilent ==
  /\ updateOutcome = "skipped" =>
       /\ disposed
       /\ phase = "handle"
       /\ panic = ""
       /\ dispatcher = None
  /\ disposed => pc = "idle"

\* update was called after dispose and returned.
C10_Witness ==
  /\ disposed
  /\ ticked
  /\ updateOutcome = "skipped"

\* C11: the dispatcher's teardown runs exactly once, at the first dispose
\* call; later dispose calls tear nothing down and do not fail; a built
\* handle holds its dispatcher until the first dispose and never after.
C11_DisposeOnce ==
  /\ teardowns <= 1
  /\ disposed <=> disposeCalls >= 1
  /\ (phase = "handle" /\ ~disposed) => (dispatcher.some /\ teardowns = 0)
  /\ disposed =>
       /\ dispatcher = None
       /\ teardowns = 1
       /\ phase = "handle"
       /\ panic = ""

\* dispose, update and dispose again on a handle that had ticked.
C11_Witness ==
  /\ disposeCalls = 2
  /\ teardowns = 1
  /\ ticked
  /\ updateOutcome = "skipped"
  /\ registered # <<>>

\* The operation a builder call is to leave in the log.
OpOfCall(call) ==
  CASE call = "with" -> "AddSystem"
    [] call = "with_system_desc" -> "AddSystemDesc"
    [] call = "with_thread_local" -> "AddThreadLocal"
    [] call = "with_thread_local_desc" -> "AddThreadLocalDesc"
    [] call = "with_barrier" -> "AddBarrier"
    [] OTHER -> "AddBundle"

Executed(system) ==
  \/ \E k \in 1..Len(executed.nodes) : executed.nodes[k].system = system
  \/ \E k \in 1..Len(executed.thread_local) : executed.thread_local[k] = system

\* C13: when a logged operation fails, build panics at it: the registrations
\* before it were executed, none after it is, no dispatcher is built and no
\* handle exists (nothing is ever ticked or disposed).
C13_BuildAbortsAtFirstFailure ==
  LET R == registered
  IN /\ (JustBuilt /\ ~Valid(R)) => phase = "panicked"
     /\ phase = "panicked" =>
          /\ ~Valid(R)
          /\ panic = "Failed to set up dispatcher"
          /\ dispatcher = None
          /\ pc = "idle" /\ ~ticked /\ updateOutcome = "none" /\ disposeCalls = 0
          /\ \A i \in 1..Len(R) :
               R[i].kind \in {"unit", "thread_local"} =>
                 (Executed(R[i].system) <=> i < FirstInvalid(R))
          /\ executed.gen <=
               Cardinality({i \in 1..(FirstInvalid(R) - 1) : R[i].kind = "barrier"})

\* a, a again, then a unit and a thread-local unit: only the first ran.
C13_Witness ==
  /\ phase = "panicked"
  /\ Len(calls) = 4
  /\ calls[1].call = "with" /\ calls[1].name = "a"
  /\ calls[2].call = "with" /\ calls[2].name = "a"
  /\ calls[3].call = "with" /\ calls[3].name = "b" /\ calls[3].dependencies = <<>>
  /\ calls[4].call = "with_thread_local"
  /\ error = Err("DuplicateName", "a")
  /\ Len(executed.nodes) = 1
  /\ executed.thread_local = <<>>

(***************************************************************************)
(* Claims about the legion-ecs feature (BridgeSpec).                       *)
(***************************************************************************)
\* The calls pass makes on a list of n syncers.
PassCalls(pass, n) == [k \in 1..n |-> <<pass, k>>]

\* What a successful build does with n syncers in the state.
FullTrace(n) ==
  << <<"replay", 0>>, <<"temp_setup", 0>>, <<"prepare", 0>>, <<"extend", 0>> >>
  \o PassCalls("setup", n)
  \o PassCalls("SpecsToLegion", n)
  \o << <<"build_migration", 0>> >>
  \o PassCalls("LegionToSpecs", n)
  \o << <<"bind_listener", 0>>, <<"new", 0>> >>

\* build has gone past migration_state.syncers.extend.
Extended == Len(trace) >= 4

\* build with the feature has returned a handle.
BridgeBuilt == phase = "handle" /\ bpc > 0

\* C14: with the feature, build replays and sets up the primary graph,
\* prepares the secondary world, sets up every syncer, syncs every syncer
\* SpecsToLegion, builds the migration dispatcher, syncs every syncer
\* LegionToSpecs and returns the handle, each once and in that order.
C14_BuildPhasesInOrder ==
  /\ trace = SubSeq(FullTrace(IF Extended THEN Len(migration_state.syncers) ELSE 0),
                    1, Len(trace))
  /\ BridgeBuilt =>
       /\ trace = FullTrace(Len(migration_state.syncers))
       /\ ~disposed => dispatcher.some
       /\ migration_state.world.prepared
       /\ migration_dispatcher.some

\* A handle built with two syncers in the state.
C14_Witness ==
  /\ BridgeBuilt
  /\ Len(migration_state.syncers) = 2
  /\ Len(trace) = 13
  /\ Len(dispatcher.nodes) = 1

\* build has called a syncer or built the migration dispatcher.
BridgeTouched ==
  \E i \in 1..Len(trace) :
    trace[i][1] \in Passes \cup {"build_migration"}

\* C15: the entity listener is bound before any syncer is set up or synced
\* and before the migration dispatcher is built, so that it has received
\* every entity event the secondary world emitted during build.
C15_ListenerBoundBeforeSyncs ==
  /\ BridgeTouched => listener.bound
  /\ BridgeBuilt => listener.buffered = migration_state.world.entities

\* The listener is bound with capacity 2048 on the returned handle, after
\* the secondary world emitted entity events it has not received.
C15_Witness ==
  /\ BridgeBuilt
  /\ listener.bound
  /\ listener.capacity = 2048
  /\ listener.buffered = 0
  /\ migration_state.world.entities = 2
  /\ trace[Len(trace) - 1] = <<"bind_listener", 0>>

\* C16: with the feature, an update call on a handle returns only after the
\* primary and the migration dispatcher have been dispatched.
C16_UpdateDispatchesBothGraphs ==
  (bpc > 0 /\ updateOutcome = "returned") => ticked

\* update returned on a live handle holding a primary unit and a migration
\* system, and nothing was dispatched.
C16_Witness ==
  /\ BridgeBuilt
  /\ ~disposed
  /\ updateOutcome = "returned"
  /\ Len(dispatcher.nodes) = 1
  /\ Len(migration_dispatcher.entries) = 1
  /\ ~ticked
  /\ done = {}

\* C17: after any chain of builder calls the caller holds the builder, so
\* build can be called.
C17_EveryCallReturnsBuilder ==
  phase \in {"builder", "dropped"} => ENABLED LegionBuild

\* migration_component_sync_with has pushed its syncer and handed back
\* nothing: build cannot be called on the chain.
C17_Witness ==
  /\ phase = "dropped"
  /\ migration_calls # <<>>
  /\ migration_calls[Len(migration_calls)] = "migration_component_sync_with"
  /\ migration_syncers[Len(migration_syncers)] = "ComponentSyncerWith"
  /\ ~ENABLED LegionBuild
  /\ trace = <<>>

Called(method) ==
  \E i \in 1..Len(migration_calls) : migration_calls[i] = method

\* The construction of the migration systems left the secondary world alone.
NoSecondaryMutation ==
  \A i \in 1..Len(migration_dispatcher.entries) :
    migration_dispatcher.entries[i].desc # "mutating"

\* C18: for a resource seeded with v in the primary world and registered
\* with migration_resource_sync, the secondary world holds v after the
\* SpecsToLegion pass, and after the LegionToSpecs pass, the secondary world
\* not having been mutated in between, both worlds hold v.
C18_ResourceRoundTrip ==
  (seed # "none" /\ Called("migration_resource_sync")) =>
    /\ At("build_migration") => migration_state.world.res = seed
    /\ (BridgeBuilt /\ NoSecondaryMutation) =>
         /\ world.res = seed
         /\ migration_state.world.res = seed

\* A seeded resource has gone to the secondary world and back.
C18_Witness ==
  /\ BridgeBuilt
  /\ seed = "v2"
  /\ migration_calls = <<"migration_resource_sync", "migration_with_system">>
  /\ NoSecondaryMutation
  /\ world.res = "v2"
  /\ migration_state.world.res = "v2"

\* C19: the syncer calls of build are made one at a time: a call begins
\* only when the previous one has returned, and each pass calls the syncers
\* in the order of the list.
C19_SyncerCallsSerialized ==
  /\ Cardinality(inCall) <= 1
  /\ inCall \subseteq {called}
  /\ \A i \in 1..Len(trace) :
       trace[i][1] \in Passes =>
         IF trace[i][2] = 1
         THEN trace[i - 1][1] # trace[i][1]
         ELSE trace[i - 1] = <<trace[i][1], trace[i][2] - 1>>

\* The second syncer is being synced, the first call has returned.
C19_Witness ==
  /\ At("SpecsToLegion")
  /\ Len(migration_state.syncers) = 3
  /\ called = 2
  /\ inCall = {2}

\* The syncer a migration method registers (sync bundles add theirs first,
\* when they are prepared).
SyncerOf(method) ==
  CASE method = "migration_resource_sync" -> <<"ResourceSyncer">>
    [] method = "migration_component_sync" -> <<"ComponentSyncer">>
    [] method = "migration_component_sync_with" -> <<"ComponentSyncerWith">>
    [] OTHER -> <<>>

RECURSIVE RegisteredSyncers(_)
RegisteredSyncers(methods) ==
  IF methods = <<>> THEN <<>>
  ELSE SyncerOf(Head(methods)) \o RegisteredSyncers(Tail(methods))

PreparedSyncers ==
  [i \in 1..Len(SelectSeq(migration_calls,
                          LAMBDA m : m = "migration_sync_bundle")) |->
     "ComponentSyncer"]

Visits(pass, k) == {i \in 1..Len(trace) : trace[i] = <<pass, k>>}

\* C20: from the first setup call on, and across every sync call of both
\* passes, the syncer list of the state is the list build put together, and
\* on the returned handle every position of it has been visited exactly
\* once by each pass.
C20_SyncerListUntouched ==
  /\ (bpc > 0 /\ Extended) =>
       migration_state.syncers = PreparedSyncers \o RegisteredSyncers(migration_calls)
  /\ BridgeBuilt =>
       \A pass \in Passes :
         \A k \in 1..Len(migration_state.syncers) :
           Cardinality(Visits(pass, k)) = 1

\* Both passes have gone over a list of three syncers, one of them added
\* by a sync bundle.
C20_Witness ==
  /\ BridgeBuilt
  /\ migration_state.syncers =
       <<"ComponentSyncer", "ResourceSyncer", "ComponentSyncer">>
  /\ Called("migration_sync_bundle")
  /\ world.entities = 1
  /\ migration_state.bimap = 1

(***************************************************************************)
(* Progress and exactly-once execution (LiveSpec).                         *)
(***************************************************************************)
\* Executions of a payload begun in the current tick.
Runs(system) ==
  Cardinality({k \in Nodes : /\ dispatcher.nodes[k].system = system
                             /\ k \in running \cup done})
  + Cardinality({p \in 1..Len(tlRun) : tlRun[p] = system})

\* Executions of a payload completed in the current tick.
CompletedRuns(system) ==
  Cardinality({k \in Nodes : dispatcher.nodes[k].system = system /\ k \in done})
  + Cardinality({p \in 1..Len(tlRun) : tlRun[p] = system})

Payloads == {i \in 1..Len(registered) :
               registered[i].kind \in {"unit", "thread_local"}}

\* update has returned from a dispatch in which every registered unit was
\* executed exactly once.
TickComplete ==
  /\ pc = "idle"
  /\ updateOutcome = "dispatched"
  /\ ticked
  /\ running = {}
  /\ \A i \in Payloads : CompletedRuns(registered[i].system) = 1

\* C21: whatever the size of the pool (one thread or more), no registered
\* unit is ever executed twice within a tick, and every tick that has begun
\* eventually returns with every registered unit, parallel or thread-local,
\* executed exactly once.
C21_TickCompletesExactlyOnce ==
  /\ []((phase = "handle" /\ dispatcher.some) =>
          \A i \in Payloads : Runs(registered[i].system) <= 1)
  /\ (pc = "dispatch") ~> TickComplete

\* A tick of two independent units and a thread-local unit on a pool of
\* one thread has completed.
C21_Witness ==
  /\ pool = 1
  /\ Len(calls) = 3
  /\ calls[1].call = "with" /\ calls[1].name = "a"
  /\ calls[2].call = "with" /\ calls[2].name = "b" /\ calls[2].dependencies = <<>>
  /\ calls[3].call = "with_thread_local"
  /\ TickComplete
  /\ done = {1, 2}
  /\ tlRun = <<calls[3].system>>

(***************************************************************************)
(* Bundles in the replay (Spec).                                           *)
(***************************************************************************)
IsBundle(i) == calls[i].call = "with_bundle"

IsUnitCall(i) == calls[i].call \in {"with", "with_system_desc"}

\* The bundle's calls that register a parallel unit, a thread-local unit.
BundleAdds(i) ==
  {k \in 1..Len(calls[i].bundle.calls) : calls[i].bundle.calls[k].kind = "add"}

BundleThreadLocals(i) ==
  {k \in 1..Len(calls[i].bundle.calls) :
     calls[i].bundle.calls[k].kind = "add_thread_local"}

\* The non-empty names the call registers, directly or through its bundle.
NamesOf(i) ==
  IF IsBundle(i)
  THEN {calls[i].bundle.calls[k].name : k \in BundleAdds(i)} \ {""}
  ELSE IF IsUnitCall(i) THEN {calls[i].name} \ {""} ELSE {}

DependenciesOf(i) ==
  IF IsUnitCall(i)
  THEN {calls[i].dependencies[p] : p \in 1..Len(calls[i].dependencies)}
  ELSE {}

\* Place of a thread-local unit in the built dispatcher's sequential list.
ThreadLocalPlace(system) ==
  CHOOSE p \in 1..Len(dispatcher.thread_local) :
    dispatcher.thread_local[p] = system

\* C22: a bundle is expanded at its own place in the replay. A name it
\* registers that another call registers too, earlier or later, makes build
\* panic; so does a unit called before with_bundle that depends on a name of
\* the bundle (as an unknown dependency when the name is registered nowhere
\* before the unit and nothing failed earlier); and in a built graph the
\* bundle's units, barriers and thread-local units lie between those of the
\* calls before and after it, a later unit that names a unit of the bundle
\* depending on that unit's node.
C22_BundleExpandedInPlace ==
  JustBuilt =>
    \A i \in 1..Len(calls) :
      IsBundle(i) =>
        \A j \in (1..Len(calls)) \ {i} :
          /\ NamesOf(i) \cap NamesOf(j) # {} => phase = "panicked"
          /\ (j < i /\ DependenciesOf(j) \cap NamesOf(i) # {}) =>
               /\ phase = "panicked"
               /\ panic = "Failed to set up dispatcher"
               /\ dispatcher = None
               /\ ( /\ Len(executed.nodes) + Len(executed.thread_local) =
                         Cardinality({m \in 1..(j - 1) :
                                        IsUnitCall(m) \/ calls[m].call \in
                                          {"with_thread_local",
                                           "with_thread_local_desc"}})
                    /\ \A m \in 1..(j - 1) : ~IsBundle(m)
                    /\ \E d \in DependenciesOf(j) \cap NamesOf(i) :
                         \A m \in 1..(j - 1) : d \notin NamesOf(m) ) =>
                    /\ error.kind = "UnknownDependency"
                    /\ error.name \in DependenciesOf(j)
                    /\ \A m \in 1..(j - 1) : error.name \notin NamesOf(m)
          /\ (phase = "handle" /\ IsUnitCall(j)) =>
               \A k \in BundleAdds(i) :
                 /\ NodeOf(<<i, k>>) < NodeOf(calls[j].system) <=> i < j
                 /\ i < j =>
                      /\ dispatcher.nodes[NodeOf(<<i, k>>)].gen
                           < dispatcher.nodes[NodeOf(calls[j].system)].gen
                      /\ calls[i].bundle.calls[k].name \in DependenciesOf(j) =>
                           NodeOf(<<i, k>>) \in
                             dispatcher.nodes[NodeOf(calls[j].system)].deps
                 /\ j < i =>
                      dispatcher.nodes[NodeOf(calls[j].system)].gen
                        <= dispatcher.nodes[NodeOf(<<i, k>>)].gen
          /\ ( /\ phase = "handle"
               /\ calls[j].call \in {"with_thread_local", "with_thread_local_desc"} ) =>
               \A k \in BundleThreadLocals(i) :
                 ThreadLocalPlace(<<i, k>>) < ThreadLocalPlace(calls[j].system)
                   <=> i < j

\* with(A,"a",[]).with_bundle(bundle registering "b").with(C,"c",["a","b"])
\* is built, C waiting for the bundle's unit.
C22_Witness ==
  /\ JustBuilt
  /\ phase = "handle"
  /\ Len(calls) = 3
  /\ calls[1].call = "with" /\ calls[1].name = "a"
  /\ calls[2].call = "with_bundle" /\ calls[2].bundle = GoodBundle
  /\ calls[3].call = "with" /\ calls[3].name = "c"
  /\ calls[3].dependencies = <<"a", "b">>
  /\ Len(dispatcher.nodes) = 3
  /\ dispatcher.nodes[2].system = <<2, 1>>
  /\ dispatcher.nodes[3].deps = {1, 2}

\* The same three calls with the unit ahead of the bundle: "b" is unknown.
C22_WitnessBefore ==
  /\ phase = "panicked"
  /\ Len(calls) = 3
  /\ calls[1].call = "with" /\ calls[1].name = "a"
  /\ calls[2].call = "with" /\ calls[2].dependencies = <<"a", "b">>
  /\ calls[3].call = "with_bundle" /\ calls[3].bundle = GoodBundle
  /\ error = Err("UnknownDependency", "b")

(***************************************************************************)
(* A failed replay in the build of the legion-ecs feature (BridgeSpec).    *)
(***************************************************************************)
\* C23: when the replay of the primary log fails in the build of the
\* legion-ecs feature, build panics there and the bridge is as it was: the
\* replay is the only statement that ran, the LegionState is unchanged (its
\* world not prepared, no syncer added by a sync bundle or from the builder),
\* no syncer is being or has been called, no migration dispatcher is built
\* and no listener is bound.
C23_FailedReplayLeavesBridge ==
  phase = "panicked" =>
    /\ panic = "Failed to set up dispatcher"
    /\ dispatcher = None
    /\ trace = << <<"replay", 0>> >>
    /\ migration_state = legion_state
    /\ ~migration_state.world.prepared
    /\ migration_state.syncers = <<>>
    /\ called = 0
    /\ inCall = {}
    /\ migration_dispatcher = NoMigrationDispatcher
    /\ listener = NoListener

\* A failing bundle in the primary log, with a syncer and a sync bundle
\* registered for the bridge: build has panicked.
C23_Witness ==
  /\ phase = "panicked"
  /\ Len(calls) = 1
  /\ calls[1].call = "with_bundle" /\ calls[1].bundle = BadBundle
  /\ error = Err("BundleExpansionFailed", "")
  /\ migration_syncers = <<"ResourceSyncer">>
  /\ migration_sync_builders = <<"SyncBundle">>
  /\ ~migration_state.world.prepared

====
